---- MODULE Spec2Model ----
(***************************************************************************)
(* A model of the rainfall fern map (src/main.js, first program of the     *)
(* file): name normalisation and the alias tables, the ingestion of the    *)
(* rainfall rows, the value resolver, the style bands, the anchors, the    *)
(* startup sequence (init), the month stepper and the user events.         *)
(*                                                                         *)
(* JavaScript strings are sequences of one-character strings, so that the  *)
(* text functions (norm, Number, String) are computed and not assumed.     *)
(* JavaScript values that may be absent or not-a-number are tagged         *)
(* records.                                                                *)
(***************************************************************************)
EXTENDS Integers, Sequences, FiniteSets, TLC

-----------------------------------------------------------------------------
(* JavaScript values *)

Undefined == [k |-> "undefined"]
NaN == [k |-> "nan"]
Num(n) == [k |-> "num", n |-> n]
Inf(sign) == [k |-> "inf", n |-> sign]
Str(s) == [k |-> "str", s |-> s]
Arr(a) == [k |-> "array", a |-> a]
TypeError == [k |-> "TypeError"]

\* Number.isFinite(value): a number that is neither NaN nor an infinity.
IsFinite(v) == v.k = "num"

\* The least and the greatest of a non-empty set of integers.
Min(S) == CHOOSE i \in S : \A j \in S : i <= j
Max(S) == CHOOSE i \in S : \A j \in S : i >= j

-----------------------------------------------------------------------------
(* Characters *)

Digits == <<"0","1","2","3","4","5","6","7","8","9">>
UpperCase == <<"A","B","C","D","E","F","G","H","I","J","K","L","M",
               "N","O","P","Q","R","S","T","U","V","W","X","Y","Z">>
LowerCase == <<"a","b","c","d","e","f","g","h","i","j","k","l","m",
               "n","o","p","q","r","s","t","u","v","w","x","y","z">>

Range(s) == {s[i] : i \in 1..Len(s)}

\* \w of a JavaScript regular expression: [A-Za-z0-9_]
WordChars == Range(UpperCase) \cup Range(LowerCase) \cup Range(Digits) \cup {"_"}

\* \s of a JavaScript regular expression (the ASCII members)
WhiteSpace == {" ", "\t", "\n", "\r"}

\* The characters of the model in ascending UTF-16 code unit order, as
\* Array.prototype.sort() without a comparator orders strings.
CodeOrder == <<"\t", "\n", "\r", " ", "&", "-", ".">> \o Digits \o UpperCase
             \o <<"_">> \o LowerCase

CodeOf(c) == CHOOSE i \in 1..Len(CodeOrder) : CodeOrder[i] = c

\* a < b for two strings, by code units.
StrLess(a, b) ==
  \E i \in 1..(Len(b)) :
     /\ \A j \in 1..(i-1) : j <= Len(a) /\ a[j] = b[j]
     /\ \/ i = Len(a) + 1
        \/ i <= Len(a) /\ CodeOf(a[i]) < CodeOf(b[i])

-----------------------------------------------------------------------------
(* norm: src/main.js 43-47 *)

LowerOf(c) ==
  IF \E j \in 1..26 : UpperCase[j] = c
  THEN LowerCase[CHOOSE j \in 1..26 : UpperCase[j] = c]
  ELSE c

toLowerCase(s) == [i \in 1..Len(s) |-> LowerOf(s[i])]

\* .replace(/\s+/g, " "): every maximal run of whitespace becomes one space.
CollapseSpaces(s) ==
  LET F[i \in 0..Len(s)] ==
        IF i = 0 THEN <<>>
        ELSE IF s[i] \in WhiteSpace
             THEN IF i > 1 /\ s[i-1] \in WhiteSpace
                  THEN F[i-1]
                  ELSE Append(F[i-1], " ")
             ELSE Append(F[i-1], s[i])
  IN F[Len(s)]

\* .replace(/[^\w& ]/g, ""): keep word characters, ampersand and space.
KeepNameChar(c) == c \in WordChars \cup {"&", " "}

DropPunct(s) == SelectSeq(s, KeepNameChar)

\* .trim(): whitespace removed at both ends.
TrimTo(s, keep) == IF keep = {} THEN <<>> ELSE SubSeq(s, Min(keep), Max(keep))

trim(s) == TrimTo(s, {i \in 1..Len(s) : s[i] \notin WhiteSpace})

\* norm(s): s is a JavaScript value, a string or undefined (s ?? "").
norm(v) ==
  trim(DropPunct(CollapseSpaces(toLowerCase(
    IF v.k = "str" THEN v.s ELSE <<>>))))

-----------------------------------------------------------------------------
(* NAME_ALIASES and REVERSE_ALIASES: src/main.js 49-86, 102-104 *)

\* The object literal's entries, in source order: display name, code.
AliasEntries ==
    <<
       <<<<"A","n","d","a","m","a","n"," ","&"," ","N","i","c","o","b","a","r"," ","I","s","l","a","n","d","s">>,
         <<"1">>>>,
       <<<<"A","r","u","n","a","c","h","a","l"," ","P","r","a","d","e","s","h">>,
         <<"2">>>>,
       <<<<"A","s","s","a","m"," ","&"," ","M","e","g","h","a","l","a","y","a">>,
         <<"3">>>>,
       <<<<"N","a","g","a"," ","M","a","n","i"," ","M","i","z","o"," ","T","r","i","p","u","r","a">>,
         <<"4">>>>,
       <<<<"S","u","b"," ","H","i","m","a","l","a","y","a","n"," ","W","e","s","t"," ","B","e","n","g","a","l"," ","&"," ","S","i","k","k","i","m">>,
         <<"5">>>>,
       <<<<"G","a","n","g","e","t","i","c"," ","W","e","s","t"," ","B","e","n","g","a","l">>,
         <<"6">>>>,
       <<<<"O","r","i","s","s","a">>,
         <<"7">>>>,
       <<<<"J","h","a","r","k","h","a","n","d">>,
         <<"8">>>>,
       <<<<"B","i","h","a","r">>,
         <<"9">>>>,
       <<<<"E","a","s","t"," ","U","t","t","a","r"," ","P","r","a","d","e","s","h">>,
         <<"1","0">>>>,
       <<<<"W","e","s","t"," ","U","t","t","a","r"," ","P","r","a","d","e","s","h">>,
         <<"1","1">>>>,
       <<<<"U","t","t","a","r","a","k","h","a","n","d">>,
         <<"1","2">>>>,
       <<<<"H","a","r","y","a","n","a"," ","D","e","l","h","i"," ","&"," ","C","h","a","n","d","i","g","a","r","h">>,
         <<"1","3">>>>,
       <<<<"P","u","n","j","a","b">>,
         <<"1","4">>>>,
       <<<<"H","i","m","a","c","h","a","l"," ","P","r","a","d","e","s","h">>,
         <<"1","5">>>>,
       <<<<"J","a","m","m","u"," ","&"," ","K","a","s","h","m","i","r">>,
         <<"1","6">>>>,
       <<<<"W","e","s","t"," ","R","a","j","a","s","t","h","a","n">>,
         <<"1","7">>>>,
       <<<<"E","a","s","t"," ","R","a","j","a","s","t","h","a","n">>,
         <<"1","8">>>>,
       <<<<"W","e","s","t"," ","M","a","d","h","y","a"," ","P","r","a","d","e","s","h">>,
         <<"1","9">>>>,
       <<<<"E","a","s","t"," ","M","a","d","h","y","a"," ","P","r","a","d","e","s","h">>,
         <<"2","0">>>>,
       <<<<"G","u","j","a","r","a","t"," ","R","e","g","i","o","n">>,
         <<"2","1">>>>,
       <<<<"S","a","u","r","a","s","h","t","r","a"," ","&"," ","K","u","t","c","h">>,
         <<"2","2">>>>,
       <<<<"K","o","n","k","a","n"," ","&"," ","G","o","a">>,
         <<"2","3">>>>,
       <<<<"M","a","d","h","y","a"," ","M","a","h","a","r","a","s","h","t","r","a">>,
         <<"2","4">>>>,
       <<<<"M","a","t","a","t","h","w","a","d","a">>,
         <<"2","5">>>>,
       <<<<"V","i","d","a","r","b","h","a">>,
         <<"2","6">>>>,
       <<<<"C","h","h","a","t","t","i","s","g","a","r","h">>,
         <<"2","7">>>>,
       <<<<"C","o","a","s","t","a","l"," ","A","n","d","h","r","a"," ","P","r","a","d","e","s","h">>,
         <<"2","8">>>>,
       <<<<"T","e","l","a","n","g","a","n","a">>,
         <<"2","9">>>>,
       <<<<"R","a","y","a","l","s","e","e","m","a">>,
         <<"3","0">>>>,
       <<<<"T","a","m","i","l"," ","N","a","d","u">>,
         <<"3","1">>>>,
       <<<<"C","o","a","s","t","a","l"," ","K","a","r","n","a","t","a","k","a">>,
         <<"3","2">>>>,
       <<<<"N","o","r","t","h"," ","I","n","t","e","r","i","o","r"," ","K","a","r","n","a","t","a","k","a">>,
         <<"3","3">>>>,
       <<<<"S","o","u","t","h"," ","I","n","t","e","r","i","o","r"," ","K","a","r","n","a","t","a","k","a">>,
         <<"3","4">>>>,
       <<<<"K","e","r","a","l","a">>,
         <<"3","5">>>>,
       <<<<"L","a","k","s","h","a","d","w","e","e","p">>,
         <<"3","6">>>>
    >>

\* A sequence as the set of its <<position, element>> pairs.
Indexed(s) == {<<i, s[i]>> : i \in 1..Len(s)}

\* Among triples <<position, ...>>, the first and the last by position.
FirstOf(S) == CHOOSE p \in S : \A q \in S : p[1] <= q[1]
LastOf(S) == CHOOSE p \in S : \A q \in S : q[1] <= p[1]

\* The literal's properties as it is evaluated: position, norm(name),
\* norm(code).
AliasTable ==
  {<<e[1], norm(Str(e[2][1])), norm(Str(e[2][2]))>> : e \in Indexed(AliasEntries)}

\* An object literal with computed keys: a later entry with the same key
\* replaces an earlier one's value (and keeps the earlier one's place in
\* the order of the keys).
ObjectOf(table) ==
  [key \in {p[2] : p \in table} |-> LastOf({p \in table : p[2] = key})[3]]

NAME_ALIASES == ObjectOf(AliasTable)

\* Object.entries(obj): position of the key's first entry, key, value, in
\* insertion order (no key is an integer index, so none is moved to the
\* front).
ObjectEntries(table, obj) ==
  {<<FirstOf({p \in table : p[2] = key})[1], key, obj[key]>> : key \in DOMAIN obj}

\* Object.fromEntries of the pairs as they are, not swapped.
FromUnswapped(entries) ==
  [key \in {e[2] : e \in entries} |-> LastOf({e \in entries : e[2] = key})[3]]

\* Object.fromEntries of the swapped pairs: for a target that two keys share,
\* the later pair wins.
FromSwapped(entries) ==
  [target \in {e[3] : e \in entries} |-> LastOf({e \in entries : e[3] = target})[2]]

REVERSE_ALIASES == FromSwapped(ObjectEntries(AliasTable, NAME_ALIASES))

\* obj[key] of a plain object: the value, or undefined.
Lookup(obj, key) == IF key \in DOMAIN obj THEN Str(obj[key]) ELSE Undefined

\* a ?? b for a string or undefined a
OrElse(a, b) == IF a.k = "undefined" THEN b ELSE a.s

\* a truthy string a, else b
TruthyOr(a, b) == IF a.k = "str" /\ a.s # <<>> THEN a.s ELSE b

\* NAME_ALIASES[key] ?? key
AliasOrKey(key) == OrElse(Lookup(NAME_ALIASES, key), key)

\* NAME_ALIASES[norm(name)] ?? norm(name)   (src/main.js 324, 460)
CanonicalKey(name) == AliasOrKey(norm(Str(name)))

-----------------------------------------------------------------------------
(* Number(text) and String(number) *)

DigitValue(c) == (CHOOSE i \in 1..10 : Digits[i] = c) - 1

DigitsValue(t) ==
  LET F[i \in 0..Len(t)] == IF i = 0 THEN 0 ELSE F[i-1] * 10 + DigitValue(t[i])
  IN F[Len(t)]

AllDigits(t) == Len(t) > 0 /\ \A i \in 1..Len(t) : t[i] \in Range(Digits)

InfinityText == <<"I","n","f","i","n","i","t","y">>

\* The numeric value of a literal without its sign.
UnsignedLiteral(sign, body) ==
  IF AllDigits(body) THEN Num(sign * DigitsValue(body))
  ELSE IF body = InfinityText THEN Inf(sign)
  ELSE NaN

\* The numeric value of a trimmed text: the empty string is 0.
StringToNumber(t) ==
  IF t = <<>> THEN Num(0)
  ELSE IF t[1] = "-" THEN UnsignedLiteral(-1, Tail(t))
  ELSE IF t[1] = "+" THEN UnsignedLiteral(1, Tail(t))
  ELSE UnsignedLiteral(1, t)

\* Number(v) for v undefined or a string whose numeric literals are decimal
\* integers (the rainfall texts of the model hold no fraction, exponent or
\* radix prefix): surrounding whitespace is ignored, the empty string is 0,
\* anything that is not a numeric literal is NaN.
Number(v) ==
  IF v.k = "undefined" THEN NaN
  ELSE IF v.k # "str" THEN v
  ELSE StringToNumber(trim(v.s))

\* The decimal digits of a natural number.
DigitsOf(n) ==
  LET D[m \in 0..n] ==
        IF m < 10 THEN <<Digits[m + 1]>>
        ELSE Append(D[m \div 10], Digits[(m % 10) + 1])
  IN D[n]

\* String(n) for an integer n.
String(n) == IF n < 0 THEN <<"-">> \o DigitsOf(-n) ELSE DigitsOf(n)

\* a === b for two numbers
StrictEq(a, b) ==
  /\ a.k \in {"num", "inf"}
  /\ a = b

\* a <= b for two numbers (false when either is NaN or undefined)
LessEq(a, b) ==
  \/ a.k = "num" /\ b.k = "num" /\ a.n <= b.n
  \/ a.k = "inf" /\ b.k \in {"num", "inf"} /\ (a.n = -1 \/ a = b)
  \/ a.k = "num" /\ b.k = "inf" /\ b.n = 1

-----------------------------------------------------------------------------
(* Rows of the rainfall table *)

MONTHS == <<"JAN","FEB","MAR","APR","MAY","JUN","JUL","AUG","SEP","OCT","NOV","DEC">>
YEAR_COL == "YEAR"

\* row[h] of a parsed CSV row: the text of the column, or undefined when the
\* header has no such column.
Get(row, h) == IF h \in DOMAIN row THEN Str(row[h]) ELSE Undefined

\* arr[i] (0-based) of an array: undefined beyond its ends.
At(arr, i) == IF i >= 0 /\ i < Len(arr) THEN arr[i + 1] ELSE Undefined

YearOf(row) == Number(Get(row, YEAR_COL))

-----------------------------------------------------------------------------
(* chooseStyle: src/main.js 329-336 *)

\* chooseStyle with exclusive upper bounds.
chooseStyleExclusive(value) ==
  IF ~IsFinite(value) THEN <<"#555555", 5000>>
  ELSE IF value.n < 50 THEN <<"#a56c34", 1000>>
  ELSE IF value.n < 100 THEN <<"#96ad2f", 2500>>
  ELSE IF value.n < 200 THEN <<"#3ba84d", 5000>>
  ELSE IF value.n < 300 THEN <<"#1f6e2c", 6000>>
  ELSE <<"#325c49", 7500>>

chooseStyle(value) ==
  IF ~IsFinite(value) THEN <<"#555555", 5000>>
  ELSE IF value.n <= 50 THEN <<"#a56c34", 1000>>
  ELSE IF value.n <= 100 THEN <<"#96ad2f", 2500>>
  ELSE IF value.n <= 200 THEN <<"#3ba84d", 5000>>
  ELSE IF value.n <= 300 THEN <<"#1f6e2c", 6000>>
  ELSE <<"#325c49", 7500>>

-----------------------------------------------------------------------------
(* ingestRainRows, the data part: src/main.js 399-421 *)

\* if (!sub) continue: rows with no or an empty SUBDIVISION are skipped.
HasSubdivision(row) ==
  "SUBDIVISION" \in DOMAIN row /\ row["SUBDIVISION"] # <<>>

\* tmp.get(sub): the rows of one SUBDIVISION text, in the order of the input.
GroupRows(rws, sub) ==
  SelectSeq(rws, LAMBDA r : HasSubdivision(r) /\ r["SUBDIVISION"] = sub)

SubdivisionsOf(rws) ==
  {rws[i]["SUBDIVISION"] : i \in {j \in 1..Len(rws) : HasSubdivision(rws[j])}}

\* r put in front of position at.
InsertAt(sorted, r, at) ==
  SubSeq(sorted, 1, at - 1) \o <<r>> \o SubSeq(sorted, at, Len(sorted))

InsertBefore(sorted, r, after) ==
  IF after = {} THEN Append(sorted, r) ELSE InsertAt(sorted, r, Min(after))

\* A stable insertion of row r behind every row whose year is not greater.
InsertByYear(sorted, r) ==
  InsertBefore(sorted, r,
               {i \in 1..Len(sorted) : YearOf(sorted[i]).n > YearOf(r).n})

StableSortByYear(arr) ==
  LET F[i \in 0..Len(arr)] ==
        IF i = 0 THEN <<>> ELSE InsertByYear(F[i-1], arr[i])
  IN F[Len(arr)]

\* The array left in the order of the input.
SortByYearSkipped(arr) == {arr}

ArrayOrders(arr) ==
  {[i \in 1..Len(arr) |-> arr[p[i]]] :
     p \in {q \in [1..Len(arr) -> 1..Len(arr)] :
              \A i, j \in 1..Len(arr) : q[i] = q[j] => i = j}}

\* arr.sort((a, b) => Number(a.YEAR) - Number(b.YEAR)): the results the
\* engine may produce. The sort is stable; when a year is not a finite
\* number the comparator returns NaN and is not a consistent comparison, and
\* the order is then implementation-defined.
SortByYear(arr) ==
  IF \A i \in 1..Len(arr) : IsFinite(YearOf(arr[i]))
  THEN {StableSortByYear(arr)}
  ELSE ArrayOrders(arr)

\* The maps from the names to one of the sorted orders of each group.
SortedGroups(rws, subs) ==
  {d \in [subs -> UNION {SortByYear(GroupRows(rws, s)) : s \in subs}] :
     \A s \in subs : d[s] \in SortByYear(GroupRows(rws, s))}

\* The values dataBySubdivision may take for the rows.
IngestData(rws) == SortedGroups(rws, SubdivisionsOf(rws))

\* The least string of a non-empty set, by code units.
LeastString(T) == CHOOSE a \in T : \A b \in T \ {a} : StrLess(a, b)

\* A set of strings as the sequence sort() without a comparator returns.
SortStrings(S) ==
  LET F[T \in SUBSET S] ==
        IF T = {} THEN <<>> ELSE <<LeastString(T)>> \o F[T \ {LeastString(T)}]
  IN F[S]

\* A set of integers ascending.
SortNumbers(S) ==
  LET F[T \in SUBSET S] ==
        IF T = {} THEN <<>> ELSE <<Min(T)>> \o F[T \ {Min(T)}]
  IN F[S]

SubdivisionListOf(data) == SortStrings(DOMAIN data)

YearListOf(data) ==
  SortNumbers(UNION {{YearOf(data[s][i]).n :
                        i \in {j \in 1..Len(data[s]) : IsFinite(YearOf(data[s][j]))}} :
                     s \in DOMAIN data})

-----------------------------------------------------------------------------
(* valueFor: src/main.js 430-443 *)

\* dataBySubdivision.get(subdivision): the region's array, or undefined.
DataGet(data, subdivision) ==
  IF subdivision \in DOMAIN data THEN Arr(data[subdivision]) ELSE Undefined

\* The element at the least position of hits, or undefined.
FirstHit(arr, hits) == IF hits = {} THEN Undefined ELSE arr[Min(hits)]

\* arr.find(r => Number(r[YEAR_COL]) === y)
FindYear(arr, y) ==
  FirstHit(arr, {i \in 1..Len(arr) : StrictEq(YearOf(arr[i]), y)})

\* The element at the greatest position of hits, else arr[0].
LastHitOrFirst(arr, hits) == IF hits = {} THEN At(arr, 0) ELSE arr[Max(hits)]

\* The backward scan for the nearest previous year, else the first row.
FallbackRow(arr, y) ==
  LastHitOrFirst(arr, {i \in 1..Len(arr) : LessEq(YearOf(arr[i]), y)})

\* if (!row) { ...fallback... }
OrFallback(row, arr, y) == IF row = Undefined THEN FallbackRow(arr, y) ELSE row

ResolveRow(arr, y) == OrFallback(FindYear(arr, y), arr, y)

\* Number(row[m]); reading a property of undefined throws.
MonthOf(row, m) == IF row = Undefined THEN TypeError ELSE Number(Get(row, m))

\* valueFor without its guard: a property of undefined is read.
ValueOfArrayUnguarded(arr, y, m) ==
  IF arr.k = "undefined" THEN TypeError
  ELSE MonthOf(ResolveRow(arr.a, y), m)

\* valueFor once the region's array has been fetched.
ValueOfArray(arr, y, m) ==
  IF arr.k = "undefined" \/ Len(arr.a) = 0 THEN NaN
  ELSE MonthOf(ResolveRow(arr.a, y), m)

valueFor(data, subdivision, y, m) == ValueOfArray(DataGet(data, subdivision), y, m)

-----------------------------------------------------------------------------
(* The boundary collection and the anchors: src/main.js 174-186, 251-321 *)

\* getName(props): the first non-empty of the known name properties.
NameProps == <<"SUBDIVISION", "SUB-DIV", "MET_SUBDIV", "DIVISION",
               "NAME_1", "NAME", "name", "subdivisio">>

FirstNamed(props, named) ==
  IF named = {} THEN <<>> ELSE props[NameProps[Min(named)]]

getName(props) ==
  FirstNamed(props, {i \in 1..Len(NameProps) :
                       NameProps[i] \in DOMAIN props /\ props[NameProps[i]] # <<>>})

\* chooseProjection(geojson, w, h): a projection fitted to the viewport. The
\* fit is d3-geo's; what the program relies on is that it is a function of
\* the collection and of the viewport size alone.
chooseProjection(geo, w, h) == [w |-> w, h |-> h]

\* path.centroid(f) under the projection. A feature of the model carries the
\* place of its centroid inside the collection's bounding box in percent
\* (u from the left, v from the top), which the fit scales to the viewport.
Centroid(projection, f) ==
  <<(f.u * projection.w) \div 100, (f.v * projection.h) \div 100>>

Vec(x, y) == [x |-> x, y |-> y]
Origin == Vec(0, 0)

\* new THREE.Vector3(cx - w/2, -cy + h/2, 0)
ScreenPos(c, w, h) == Vec(c[1] - (w \div 2), (h \div 2) - c[2])

EmptyMap == [key \in {} |-> Origin]

\* ANCHOR_OVERRIDES (src/main.js 88-90) is empty, and so is the map of its
\* normalized keys.
ANCHOR_OVERRIDES == EmptyMap
overrideMap == EmptyMap

\* map.get(key) of a Map whose values are vectors
MapGet(map, key) == IF key \in DOMAIN map THEN map[key] ELSE Undefined

\* map.set(key, value)
MapSet(map, key, value) ==
  [x \in (DOMAIN map) \cup {key} |-> IF x = key THEN value ELSE map[x]]

\* The key of a feature's anchor (src/main.js 302-305): the normalized name,
\* replaced by its alias when NAME_ALIASES has one.
AliasIfAny(topoKey) == TruthyOr(Lookup(NAME_ALIASES, topoKey), topoKey)

TopoKey(rawName) == AliasIfAny(norm(Str(rawName)))

\* overrideMap.get(topoKey) || (csvKey ? overrideMap.get(csvKey) : undefined)
FirstOverride(byTopo, csvKey) ==
  IF byTopo # Undefined THEN byTopo
  ELSE IF csvKey.k = "str" /\ csvKey.s # <<>> THEN MapGet(overrideMap, csvKey.s)
  ELSE Undefined

OverrideFor(topoKey) ==
  FirstOverride(MapGet(overrideMap, topoKey), Lookup(REVERSE_ALIASES, topoKey))

\* if (ov) pos.set(ov.x, ov.y, 0)
Overridden(ov, pos) == IF ov # Undefined THEN Vec(ov.x, ov.y) ELSE pos

\* The position stored for a feature (src/main.js 307-317).
AnchorPos(projection, f, topoKey, w, h) ==
  Overridden(OverrideFor(topoKey), ScreenPos(Centroid(projection, f), w, h))

\* anchors.set(topoKey, pos) for one named feature
SetAnchor(map, projection, f, topoKey, w, h) ==
  MapSet(map, topoKey, AnchorPos(projection, f, topoKey, w, h))

\* The loop body of rebuildAnchorsFromMap: features without a name are
\* skipped.
AddFeature(map, projection, f, rawName, w, h) ==
  IF rawName = <<>> THEN map
  ELSE SetAnchor(map, projection, f, TopoKey(rawName), w, h)

\* rebuildAnchorsFromMap without anchors.clear().
rebuildAnchorsKept(old, geo, projection, w, h) ==
  LET F[i \in 0..Len(geo.features)] ==
        IF i = 0 THEN old
        ELSE AddFeature(F[i-1], projection, geo.features[i],
                        getName(geo.features[i].properties), w, h)
  IN F[Len(geo.features)]

\* rebuildAnchorsFromMap(w, h): anchors.clear(), then one set per named
\* feature in the collection's order.
rebuildAnchorsFromMap(old, geo, projection, w, h) ==
  LET F[i \in 0..Len(geo.features)] ==
        IF i = 0 THEN EmptyMap
        ELSE AddFeature(F[i-1], projection, geo.features[i],
                        getName(geo.features[i].properties), w, h)
  IN F[Len(geo.features)]

-----------------------------------------------------------------------------
(* The ferns: src/main.js 445-509 *)

\* A fern is what the claims observe of a THREE.Points: the CSV label and the
\* key in its userData, its position, and the style (colour, point count) of
\* its geometry. The random scatter of the points is not modelled.
Mesh(sub, key, pos, value) ==
  [subdivision |-> sub, key |-> key, position |-> pos, style |-> chooseStyle(value)]

\* yearList[yearIndex]: 0-based, undefined beyond the ends
YearAt(years, idx) ==
  IF idx >= 0 /\ idx < Len(years) THEN Num(years[idx + 1]) ELSE Undefined

\* yearList[yearIndex] ?? Number(dataBySubdivision.get(sub)?.[0]?.[YEAR_COL])
SliceYear(y, first) ==
  IF y # Undefined THEN y
  ELSE IF first = Undefined THEN NaN
  ELSE YearOf(first)

\* anchor ? anchor.clone() : new THREE.Vector3(0, 0, 0)
PosOrOrigin(anchor) == IF anchor # Undefined THEN anchor ELSE Origin

FernAt(sub, topoKey, value, anch) ==
  Mesh(sub, topoKey, PosOrOrigin(MapGet(anch, topoKey)), value)

\* The loop body of buildAllFerns.
BuildFern(data, sub, years, yIdx, mIdx, anch) ==
  FernAt(sub, CanonicalKey(sub),
         valueFor(data, sub, SliceYear(YearAt(years, yIdx), At(data[sub], 0)),
                  MONTHS[mIdx + 1]),
         anch)

buildAllFerns(data, subs, years, yIdx, mIdx, anch) ==
  [i \in 1..Len(subs) |-> BuildFern(data, subs[i], years, yIdx, mIdx, anch)]

\* if (pos) mesh.position.copy(pos)
MoveTo(mesh, pos) ==
  IF pos # Undefined THEN [mesh EXCEPT !.position = pos] ELSE mesh

\* applyAnchorsToFerns that moves nothing.
applyAnchorsSkipped(meshes, anch) == meshes

applyAnchorsToFerns(meshes, anch) ==
  [i \in 1..Len(meshes) |-> MoveTo(meshes[i], MapGet(anch, meshes[i].key))]

\* updateAllFerns that refreshes nothing.
updateAllFernsSkipped(meshes, data, subs, years, yIdx, mIdx) == meshes

updateAllFerns(meshes, data, subs, years, yIdx, mIdx) ==
  [i \in 1..Len(meshes) |->
     [meshes[i] EXCEPT !.style =
        chooseStyle(valueFor(data, subs[i], YearAt(years, yIdx), MONTHS[mIdx + 1]))]]

-----------------------------------------------------------------------------
(* Bounds and inputs *)

\* The automatic ticks a run of the stepper may hold (twelve are one lap of
\* the months), and those a run of the whole page may hold.
MaxTicks == 13
ShortTicks == 2
\* The rows of a table handed to ingestRainRows before valueFor is asked.
MaxRows == 3
\* The longest name handed to norm.
MaxNameLen == 5
\* The greatest rainfall value handed to chooseStyle.
MaxValue == 305

tickMs == 1200

MkRow(sub, year, jan, feb, rest) ==
  [SUBDIVISION |-> sub, YEAR |-> year, JAN |-> jan, FEB |-> feb,
   MAR |-> rest, APR |-> rest, MAY |-> rest, JUN |-> rest, JUL |-> rest,
   AUG |-> rest, SEP |-> rest, OCT |-> rest, NOV |-> rest, DEC |-> rest]

Kerala == <<"K","e","r","a","l","a">>
TamilNadu == <<"T","a","m","i","l"," ","N","a","d","u">>
Atlantis == <<"A","t","l","a","n","t","i","s">>

K1980 == MkRow(Kerala, <<"1","9","8","0">>, <<"4","5">>, <<"5","0">>, <<"1","2","0">>)
K1985 == MkRow(Kerala, <<"1","9","8","5">>, <<"5","1">>, <<"1","0","0">>, <<"2","0","1">>)
K1990 == MkRow(Kerala, <<"1","9","9","0">>, <<"2","5","0">>, <<"3","0","0">>, <<"3","0","1">>)
K1985b == MkRow(Kerala, <<"1","9","8","5">>, <<"3","0","1">>, <<"1","0">>, <<"1","0">>)
T1990 == MkRow(TamilNadu, <<"1","9","9","0">>, <<"1","0","1">>, <<"2","0","0">>, <<"0">>)
A1975 == MkRow(Atlantis, <<"1","9","7","5">>, <<"6","0">>, <<"6","0">>, <<"6","0">>)
KNoYear == MkRow(Kerala, <<"N","A">>, <<"7">>, <<"7">>, <<"7">>)
NoSub == MkRow(<<>>, <<"1","9","8","0">>, <<"1">>, <<"1">>, <<"1">>)
K1980Miss == MkRow(Kerala, <<"1","9","8","0">>, <<"N","A">>, <<>>, <<"4","5">>)

\* The rows of the tables handed to the value resolver.
RowPool == {K1980, K1985, K1990, K1985b, T1990, KNoYear}

SeqsUpTo(S, n) == UNION {[1..k -> S] : k \in 0..n}

\* The tables the startup may receive from the CSV file.
CsvFixtures ==
  { <<>>,
    <<K1980, K1985, K1990>>,
    <<T1990, A1975, K1980Miss, NoSub>>,
    <<K1985b, KNoYear, K1985>> }

\* The table of the stepper's runs.
StepperFixtures == { <<K1990, T1990, K1980, K1985>> }

\* The boundary documents the startup may receive.
FKerala == [properties |-> [SUBDIVISION |-> Kerala], u |-> 30, v |-> 80]
FTamilNadu == [properties |-> [name |-> <<"T","a","m","i","l"," "," ","N","a","d","u">>], u |-> 50, v |-> 70]
FCode35 == [properties |-> [NAME_1 |-> <<"3","5">>], u |-> 20, v |-> 90]
FUnnamed == [properties |-> [id |-> <<"7">>], u |-> 10, v |-> 10]

BoundaryResponses ==
  { [ok |-> FALSE, type |-> "Topology", features |-> <<FKerala>>],
    [ok |-> TRUE, type |-> "GeometryCollection", features |-> <<FKerala>>],
    [ok |-> TRUE, type |-> "Topology", features |-> <<FKerala, FTamilNadu>>],
    [ok |-> TRUE, type |-> "FeatureCollection",
     features |-> <<FKerala, FUnnamed, FTamilNadu, FCode35>>] }

WindowSizes == {<<800, 600>>, <<1200, 600>>}

-----------------------------------------------------------------------------
(* State *)

VARIABLES
  pc,                 \* where init() stands, or "running" / "stopped"
  geojson,            \* the boundary collection, or null
  currentProjection,  \* the projection of the last rebuild, or null
  anchors,            \* canonical key -> position
  dataBySubdivision,  \* CSV name -> rows, sorted by year
  subdivisionList,
  yearList,
  fernMeshes,
  monthIndex,
  yearIndex,
  lastTime,
  camera,             \* whether onResize has created the camera
  win,                \* window.innerWidth, window.innerHeight
  clock,              \* the timestamp of the last animation frame
  rafPending,         \* animate has asked for the next frame
  frames,             \* whether animate has rendered a frame
  resizeListener,     \* onResize is registered
  yearListener,       \* the year selector's change listener is registered
  timelineListener,   \* the month segments' click listeners are registered
  csvIssued,          \* the fetch of the CSV file has been issued
  hud,                \* the status area shows the load failure
  console,            \* what console.error has logged
  rows,               \* the rows handed to ingestRainRows
  ticks,              \* automatic ticks since the last user selection
  m0,                 \* monthIndex at the last user selection
  y0,                 \* yearIndex at the last user selection
  probe               \* the last call of a function: its arguments and result

vars == <<pc, geojson, currentProjection, anchors, dataBySubdivision,
          subdivisionList, yearList, fernMeshes, monthIndex, yearIndex,
          lastTime, camera, win, clock, rafPending, frames, resizeListener,
          yearListener, timelineListener, csvIssued, hud, console, rows,
          ticks, m0, y0, probe>>

Null == [k |-> "null"]
NoProbe == [fn |-> "none"]

\* The module's state when its top-level code has run (src/main.js 28-40),
\* before init() is called.
Globals ==
  /\ geojson = Null
  /\ currentProjection = Null
  /\ anchors = EmptyMap
  /\ dataBySubdivision = EmptyMap
  /\ subdivisionList = <<>>
  /\ yearList = <<>>
  /\ fernMeshes = <<>>
  /\ monthIndex = 0
  /\ yearIndex = 0
  /\ lastTime = 0
  /\ camera = FALSE
  /\ win \in WindowSizes
  /\ clock = 0
  /\ rafPending = FALSE
  /\ frames = FALSE
  /\ resizeListener = FALSE
  /\ yearListener = FALSE
  /\ timelineListener = FALSE
  /\ csvIssued = FALSE
  /\ hud = FALSE
  /\ console = {}
  /\ rows = <<>>
  /\ ticks = 0
  /\ m0 = 0
  /\ y0 = 0

\* init() has run to its first await: the boundary fetch is pending.
Init ==
  /\ Globals
  /\ pc = "awaitBoundaries"
  /\ probe = NoProbe

-----------------------------------------------------------------------------
(* The operations, as functions of the values they read *)

\* loadBoundaries(url) for a response: src/main.js 107-117. The result is a
\* feature collection, or the error thrown.
loadBoundaries(resp) ==
  IF ~resp.ok THEN [k |-> "error", message |-> "Failed to load"]
  ELSE IF resp.type = "Topology"
       THEN [k |-> "FeatureCollection", features |-> resp.features]
  ELSE IF resp.type = "FeatureCollection"
       THEN [k |-> "FeatureCollection", features |-> resp.features]
  ELSE [k |-> "error", message |-> "Unrecognized data type"]

\* buildYearSelect(): src/main.js 546-561. Without the element yearIndex
\* stays; with it the last year is selected.
buildYearSelect(hasSelect, years, yIdx) ==
  IF ~hasSelect THEN yIdx
  ELSE IF Len(years) - 1 > 0 THEN Len(years) - 1 ELSE 0


\* What ingestRainRows leaves once the year selector has been rebuilt.
IngestedWith(data, subs, years, idx, mIdx, anch) ==
  [dataBySubdivision |-> data,
   subdivisionList |-> subs,
   yearList |-> years,
   yearIndex |-> idx,
   fernMeshes |-> updateAllFerns(buildAllFerns(data, subs, years, idx, mIdx, anch),
                                 data, subs, years, idx, mIdx)]

IngestedLists(data, subs, years, hasSelect, mIdx, yIdx, anch) ==
  IngestedWith(data, subs, years, buildYearSelect(hasSelect, years, yIdx), mIdx, anch)

\* ingestRainRows(rows) once the engine's sort has produced data: src/main.js
\* 399-428.
ingestRainRows(rws, data, hasSelect, mIdx, yIdx, anch) ==
  IngestedLists(data, SubdivisionListOf(data), YearListOf(data), hasSelect,
                mIdx, yIdx, anch)

\* rebuildMap() below the guard: the anchors are rebuilt, then the ferns are
\* snapped to them.
Snapped(projection, rebuilt, meshes) ==
  [currentProjection |-> projection,
   anchors |-> rebuilt,
   fernMeshes |-> applyAnchorsToFerns(meshes, rebuilt)]

Projected(geo, w, h, projection, anch, meshes) ==
  Snapped(projection, rebuildAnchorsFromMap(anch, geo, projection, w, h), meshes)

\* rebuildMap(): src/main.js 267-285.
rebuildMap(geo, w, h, projection, anch, meshes) ==
  IF geo = Null
  THEN [currentProjection |-> projection, anchors |-> anch, fernMeshes |-> meshes]
  ELSE Projected(geo, w, h, chooseProjection(geo, w, h), anch, meshes)

\* step(now) with the year moved on when the months wrap.
stepWithYear(now, lt, mIdx, yIdx, years, meshes, data, subs) ==
  IF now - lt >= tickMs /\ Len(years) # 0
  THEN [fired |-> TRUE, lastTime |-> now,
        monthIndex |-> (mIdx + 1) % Len(MONTHS),
        yearIndex |-> IF (mIdx + 1) % Len(MONTHS) = 0
                      THEN (yIdx + 1) % Len(years) ELSE yIdx,
        fernMeshes |-> meshes]
  ELSE [fired |-> FALSE, lastTime |-> lt, monthIndex |-> mIdx, yearIndex |-> yIdx,
        fernMeshes |-> meshes]

\* step(now) without the test of yearList.length.
stepUnguarded(now, lt, mIdx, yIdx, years, meshes, data, subs) ==
  IF now - lt >= tickMs
  THEN [fired |-> TRUE, lastTime |-> now,
        monthIndex |-> (mIdx + 1) % Len(MONTHS), yearIndex |-> yIdx,
        fernMeshes |-> meshes]
  ELSE [fired |-> FALSE, lastTime |-> lt, monthIndex |-> mIdx, yearIndex |-> yIdx,
        fernMeshes |-> meshes]

\* The month after mIdx.
NextMonth(mIdx) == (mIdx + 1) % Len(MONTHS)

\* step(now): src/main.js 512-520.
step(now, lt, mIdx, yIdx, years, meshes, data, subs) ==
  IF now - lt >= tickMs /\ Len(years) # 0
  THEN [fired |-> TRUE, lastTime |-> now, monthIndex |-> NextMonth(mIdx),
        yearIndex |-> yIdx,
        fernMeshes |-> updateAllFerns(meshes, data, subs, years, yIdx,
                                      NextMonth(mIdx))]
  ELSE [fired |-> FALSE, lastTime |-> lt, monthIndex |-> mIdx, yearIndex |-> yIdx,
        fernMeshes |-> meshes]

FirstIndex(hits) == IF hits = {} THEN -1 ELSE Min(hits) - 1

\* yearList.indexOf(v): 0-based, -1 when absent.
IndexOf(years, v) ==
  FirstIndex({i \in 1..Len(years) : StrictEq(Num(years[i]), v)})

-----------------------------------------------------------------------------
(* init(): src/main.js 620-640 *)

\* The boundary load fails: the error is logged and shown, and init returns.
\* (Without a #hud element the assignment throws instead; init ends too.)
BoundariesFailed ==
  /\ pc = "awaitBoundaries"
  /\ \E resp \in BoundaryResponses, hasHud \in BOOLEAN :
       /\ loadBoundaries(resp).k = "error"
       /\ console' = console \cup {"boundaries"}
       /\ hud' = hasHud
  /\ pc' = "stopped"
  /\ UNCHANGED <<geojson, currentProjection, anchors, dataBySubdivision,
                 subdivisionList, yearList, fernMeshes, monthIndex, yearIndex,
                 lastTime, camera, win, clock, rafPending, frames,
                 resizeListener, yearListener, timelineListener, csvIssued,
                 rows, ticks, m0, y0, probe>>

\* The boundary load succeeds: init goes on to fetch the CSV file.
BoundariesLoaded ==
  /\ pc = "awaitBoundaries"
  /\ \E resp \in BoundaryResponses :
       /\ loadBoundaries(resp).k # "error"
       /\ geojson' = loadBoundaries(resp)
  /\ csvIssued' = TRUE
  /\ pc' = "awaitCSV"
  /\ UNCHANGED <<currentProjection, anchors, dataBySubdivision,
                 subdivisionList, yearList, fernMeshes, monthIndex, yearIndex,
                 lastTime, camera, win, clock, rafPending, frames,
                 resizeListener, yearListener, timelineListener, hud, console,
                 rows, ticks, m0, y0, probe>>

\* The rest of init once the CSV load has settled, from the values the
\* ingestion left: the resize listener, onResize() and the first animate().
Startup(ing) ==
  \E map \in {rebuildMap(geojson, win[1], win[2], currentProjection, anchors,
                         ing.fernMeshes)} :
    \E st \in {step(0, lastTime, monthIndex, ing.yearIndex, ing.yearList,
                    map.fernMeshes, ing.dataBySubdivision, ing.subdivisionList)} :
      /\ dataBySubdivision' = ing.dataBySubdivision
      /\ subdivisionList' = ing.subdivisionList
      /\ yearList' = ing.yearList
      /\ resizeListener' = TRUE
      /\ camera' = TRUE
      /\ currentProjection' = map.currentProjection
      /\ anchors' = map.anchors
      /\ rafPending' = TRUE
      /\ lastTime' = st.lastTime
      /\ monthIndex' = st.monthIndex
      /\ yearIndex' = st.yearIndex
      /\ fernMeshes' = st.fernMeshes
      /\ frames' = TRUE
      /\ ticks' = 0
      /\ m0' = st.monthIndex
      /\ y0' = st.yearIndex
      /\ pc' = "running"
      /\ UNCHANGED <<geojson, win, clock, csvIssued, hud, probe>>

\* loadCSVRows resolves with rows: they are ingested, then the startup ends.
CSVLoaded(tables, elements) ==
  /\ pc = "awaitCSV"
  /\ \E rws \in tables, hasSelect \in elements, hasTimeline \in elements :
       \E data \in IngestData(rws) :
         /\ rows' = rws
         /\ yearListener' = hasSelect
         /\ timelineListener' = hasTimeline
         /\ console' = console
         /\ Startup(ingestRainRows(rws, data, hasSelect, monthIndex, yearIndex,
                                   anchors))

\* loadCSVRows throws (the fetch rejects, or the text has no line): the
\* error is logged and the startup ends without data.
CSVFailed ==
  /\ pc = "awaitCSV"
  /\ console' = console \cup {"csv"}
  /\ UNCHANGED <<rows, yearListener, timelineListener>>
  /\ Startup([dataBySubdivision |-> dataBySubdivision,
              subdivisionList |-> subdivisionList,
              yearList |-> yearList,
              yearIndex |-> yearIndex,
              fernMeshes |-> fernMeshes])

-----------------------------------------------------------------------------
(* The events of a running page *)

\* animate(now): src/main.js 642-646, a frame d milliseconds after the last.
AnimateFrame(horizon) ==
  /\ rafPending
  /\ \E d \in {tickMs \div 2, tickMs} :
       /\ clock + d <= horizon * tickMs
       /\ clock' = clock + d
       /\ \E st \in {step(clock + d, lastTime, monthIndex, yearIndex, yearList,
                          fernMeshes, dataBySubdivision, subdivisionList)} :
            /\ lastTime' = st.lastTime
            /\ monthIndex' = st.monthIndex
            /\ yearIndex' = st.yearIndex
            /\ fernMeshes' = st.fernMeshes
            /\ ticks' = IF st.fired THEN ticks + 1 ELSE ticks
  /\ rafPending' = TRUE
  /\ frames' = TRUE
  /\ UNCHANGED <<pc, geojson, currentProjection, anchors, dataBySubdivision,
                 subdivisionList, yearList, camera, win, resizeListener,
                 yearListener, timelineListener, csvIssued, hud, console,
                 rows, m0, y0, probe>>

\* onResize(): src/main.js 523-542, after the window took a size.
OnResize ==
  /\ resizeListener
  /\ \E size \in WindowSizes :
       /\ win' = size
       /\ \E map \in {rebuildMap(geojson, size[1], size[2], currentProjection,
                                 anchors, fernMeshes)} :
            /\ currentProjection' = map.currentProjection
            /\ anchors' = map.anchors
            /\ fernMeshes' = map.fernMeshes
  /\ camera' = TRUE
  /\ UNCHANGED <<pc, geojson, dataBySubdivision, subdivisionList, yearList,
                 monthIndex, yearIndex, lastTime, clock, rafPending, frames,
                 resizeListener, yearListener, timelineListener, csvIssued,
                 hud, console, rows, ticks, m0, y0, probe>>

\* The change listener of the year selector: src/main.js 564-573. The user
\* picks one of the options, whose value is String(year).
YearChange ==
  /\ yearListener
  /\ \E opt \in 1..Len(yearList) :
       \E idx \in {IndexOf(yearList, Number(Str(String(yearList[opt]))))} :
          /\ yearIndex' = IF idx # -1 THEN idx ELSE yearIndex
          /\ fernMeshes' =
               IF idx # -1
               THEN updateAllFerns(fernMeshes, dataBySubdivision,
                                   subdivisionList, yearList, idx, monthIndex)
               ELSE fernMeshes
  /\ ticks' = 0
  /\ m0' = monthIndex
  /\ y0' = yearIndex'
  /\ UNCHANGED <<pc, geojson, currentProjection, anchors, dataBySubdivision,
                 subdivisionList, yearList, monthIndex, lastTime, camera, win,
                 clock, rafPending, frames, resizeListener, yearListener,
                 timelineListener, csvIssued, hud, console, rows, probe>>

\* The click listener of a month segment: src/main.js 591-595.
MonthClick ==
  /\ timelineListener
  /\ \E i \in 0..(Len(MONTHS) - 1) :
       /\ monthIndex' = i
       /\ fernMeshes' = updateAllFerns(fernMeshes, dataBySubdivision,
                                       subdivisionList, yearList, yearIndex, i)
       /\ m0' = i
  /\ ticks' = 0
  /\ y0' = yearIndex
  /\ UNCHANGED <<pc, geojson, currentProjection, anchors, dataBySubdivision,
                 subdivisionList, yearList, yearIndex, lastTime, camera, win,
                 clock, rafPending, frames, resizeListener, yearListener,
                 timelineListener, csvIssued, hud, console, rows, probe>>

\* The page: every boundary response and table, the elements of the page
\* present or not, a short run of frames.
Next ==
  \/ BoundariesFailed
  \/ BoundariesLoaded
  \/ CSVLoaded(CsvFixtures, BOOLEAN)
  \/ CSVFailed
  \/ AnimateFrame(ShortTicks)
  \/ OnResize
  \/ YearChange
  \/ MonthClick

Spec == Init /\ [][Next]_vars

\* The stepper: one table on a page with both controls, a run of frames long
\* enough for a lap of the months, the user's selections in between.
NextStepper ==
  \/ BoundariesFailed
  \/ BoundariesLoaded
  \/ CSVLoaded(StepperFixtures, {TRUE})
  \/ CSVFailed
  \/ AnimateFrame(MaxTicks)
  \/ YearChange
  \/ MonthClick

SpecStepper == Init /\ [][NextStepper]_vars

-----------------------------------------------------------------------------
(* The value resolver on ingested tables *)

\* The regions, years and months the resolver is asked for.
ProbeRegions == {Kerala, TamilNadu, Atlantis, <<>>}
ProbeYears ==
  {Num(1975), Num(1980), Num(1983), Num(1985), Num(1990), Num(2025),
   NaN, Undefined}
ProbeMonths == {"JAN", "FEB", "DEC"}

InitValue ==
  /\ Globals
  /\ pc = "module"
  /\ probe = NoProbe

\* ingestRainRows(rows) on a page with its controls, for a table of up to
\* MaxRows rows in any order.
IngestCall ==
  /\ pc = "module"
  /\ \E rws \in SeqsUpTo(RowPool, MaxRows) :
       \E data \in IngestData(rws) :
         \E ing \in {ingestRainRows(rws, data, TRUE, monthIndex, yearIndex, anchors)} :
           /\ rows' = rws
           /\ dataBySubdivision' = ing.dataBySubdivision
           /\ subdivisionList' = ing.subdivisionList
           /\ yearList' = ing.yearList
           /\ yearIndex' = ing.yearIndex
           /\ fernMeshes' = ing.fernMeshes
  /\ yearListener' = TRUE
  /\ timelineListener' = TRUE
  /\ y0' = yearIndex'
  /\ pc' = "ingested"
  /\ UNCHANGED <<geojson, currentProjection, anchors, monthIndex, lastTime,
                 camera, win, clock, rafPending, frames, resizeListener,
                 csvIssued, hud, console, ticks, m0, probe>>

\* valueFor(subdivision, y, m) on the ingested data.
ValueForCall ==
  /\ pc = "ingested"
  /\ \E sub \in ProbeRegions, y \in ProbeYears, m \in ProbeMonths :
       probe' = [fn |-> "valueFor", subdivision |-> sub, y |-> y, m |-> m,
                 out |-> valueFor(dataBySubdivision, sub, y, m)]
  /\ pc' = "returned"
  /\ UNCHANGED <<geojson, currentProjection, anchors, dataBySubdivision,
                 subdivisionList, yearList, fernMeshes, monthIndex, yearIndex,
                 lastTime, camera, win, clock, rafPending, frames,
                 resizeListener, yearListener, timelineListener, csvIssued,
                 hud, console, rows, ticks, m0, y0>>

NextValue ==
  \/ IngestCall
  \/ ValueForCall

SpecValue == InitValue /\ [][NextValue]_vars

-----------------------------------------------------------------------------
(* The pure functions on their inputs *)

\* The values handed to chooseStyle: the whole rainfall range and the values
\* that are no finite number.
StyleInputs ==
  {Num(n) : n \in (-1)..MaxValue} \cup {NaN, Inf(1), Inf(-1), Undefined}

\* The names handed to norm: every text of up to MaxNameLen characters over
\* letters of both cases, space, a punctuation mark and the ampersand, and
\* the absent name.
NameAlphabet == {"a", "B", " ", "-", "&"}
NameInputs == {Undefined} \cup {Str(t) : t \in SeqsUpTo(NameAlphabet, MaxNameLen)}

\* The keys looked up in the alias tables: every key of the forward table,
\* and keys it does not hold.
AliasInputs == (DOMAIN NAME_ALIASES) \cup {norm(Str(Atlantis)), <<"3","5">>, <<>>}

InitPure ==
  /\ Globals
  /\ pc = "module"
  /\ probe = NoProbe

ChooseStyleCall ==
  /\ pc = "module"
  /\ \E value \in StyleInputs :
       probe' = [fn |-> "chooseStyle", arg |-> value, out |-> chooseStyle(value)]
  /\ pc' = "returned"
  /\ UNCHANGED <<geojson, currentProjection, anchors, dataBySubdivision,
                 subdivisionList, yearList, fernMeshes, monthIndex, yearIndex,
                 lastTime, camera, win, clock, rafPending, frames,
                 resizeListener, yearListener, timelineListener, csvIssued,
                 hud, console, rows, ticks, m0, y0>>

\* norm(s), and norm of the result.
NormCall ==
  /\ pc = "module"
  /\ \E name \in NameInputs :
       probe' = [fn |-> "norm", arg |-> name, out |-> norm(name),
                 again |-> norm(Str(norm(name)))]
  /\ pc' = "returned"
  /\ UNCHANGED <<geojson, currentProjection, anchors, dataBySubdivision,
                 subdivisionList, yearList, fernMeshes, monthIndex, yearIndex,
                 lastTime, camera, win, clock, rafPending, frames,
                 resizeListener, yearListener, timelineListener, csvIssued,
                 hud, console, rows, ticks, m0, y0>>

\* REVERSE_ALIASES[target] for the result of a forward lookup.
ReverseOf(target) ==
  IF target.k = "str" THEN Lookup(REVERSE_ALIASES, target.s) ELSE Undefined

\* NAME_ALIASES[key], and REVERSE_ALIASES of the result.
AliasCall ==
  /\ pc = "module"
  /\ \E key \in AliasInputs :
       probe' = [fn |-> "alias", arg |-> key, out |-> Lookup(NAME_ALIASES, key),
                 back |-> ReverseOf(Lookup(NAME_ALIASES, key))]
  /\ pc' = "returned"
  /\ UNCHANGED <<geojson, currentProjection, anchors, dataBySubdivision,
                 subdivisionList, yearList, fernMeshes, monthIndex, yearIndex,
                 lastTime, camera, win, clock, rafPending, frames,
                 resizeListener, yearListener, timelineListener, csvIssued,
                 hud, console, rows, ticks, m0, y0>>

NextPure ==
  \/ ChooseStyleCall
  \/ NormCall
  \/ AliasCall

SpecPure == InitPure /\ [][NextPure]_vars

-----------------------------------------------------------------------------
(* Properties *)

\* C1: the automatic stepper never changes yearIndex. Since the last user
\* selection (or the startup) every tick has moved monthIndex one month on,
\* modulo twelve, and yearIndex is what it was; after a multiple of twelve
\* ticks monthIndex is back at the month it started from.
C1_StepperKeepsYear ==
  pc = "running" =>
    /\ monthIndex = (m0 + ticks) % 12
    /\ yearIndex = y0
    /\ (ticks % 12 = 0 => monthIndex = m0)

\* A lap: twelve ticks after the user chose April, April is shown again and
\* the year is the one chosen.
C1_Lap ==
  /\ pc = "running"
  /\ ticks = 12
  /\ m0 = 3
  /\ monthIndex = 3
  /\ y0 = 1
  /\ yearIndex = 1

\* The positions in the input table of the rows of a region.
RegionRows(sub) ==
  {i \in 1..Len(rows) : HasSubdivision(rows[i]) /\ rows[i]["SUBDIVISION"] = sub}

RegionYears(sub) == {YearOf(rows[i]).n : i \in RegionRows(sub)}

\* The year whose row answers a query for year y: y itself, else the greatest
\* year below it, else the smallest year.
AnsweringYear(years, y) ==
  IF y \in years THEN y
  ELSE IF \E x \in years : x <= y THEN Max({x \in years : x <= y})
  ELSE Min(years)

\* C2: for a region whose rows all carry parsable years, ingested in any
\* input order, valueFor reads the month from a row of the year that equals
\* the queried year, else of the greatest year not above it, else of the
\* smallest year.
C2_ValueForNearestYear ==
  ( /\ probe.fn = "valueFor"
    /\ probe.y.k = "num"
    /\ RegionRows(probe.subdivision) # {}
    /\ \A i \in RegionRows(probe.subdivision) : IsFinite(YearOf(rows[i])) )
  => \E i \in RegionRows(probe.subdivision) :
       /\ YearOf(rows[i]).n = AnsweringYear(RegionYears(probe.subdivision), probe.y.n)
       /\ probe.out = Number(Get(rows[i], probe.m))

\* Rows given latest year first: 1975 is answered from the 1980 row.
C2_ClampedBelow ==
  /\ probe.fn = "valueFor"
  /\ rows = <<K1990, K1985, K1980>>
  /\ probe.subdivision = Kerala
  /\ probe.y = Num(1975)
  /\ probe.m = "JAN"
  /\ probe.out = Num(45)

\* A region held with an empty sequence of rows.
EmptyRegion == [sub \in {Kerala} |-> <<>>]

\* C3: valueFor for a region that has no records, absent from the data or
\* held with an empty sequence, returns NaN for every year and month, and
\* raises nothing.
C3_ValueForNoRecords ==
  /\ ( probe.fn = "valueFor" /\ probe.subdivision \notin DOMAIN dataBySubdivision
       => probe.out = NaN )
  /\ \A y \in ProbeYears, m \in ProbeMonths :
       valueFor(EmptyRegion, Kerala, y, m) = NaN

\* Tamil Nadu asked for in a table that has rows for Kerala only.
C3_AbsentRegion ==
  /\ probe.fn = "valueFor"
  /\ probe.subdivision = TamilNadu
  /\ DOMAIN dataBySubdivision = {Kerala}
  /\ probe.y = Num(1985)
  /\ probe.out = NaN

\* The threshold band of a finite value, upper bounds inclusive.
Band(n) ==
  IF n <= 50 THEN 1
  ELSE IF n <= 100 THEN 2
  ELSE IF n <= 200 THEN 3
  ELSE IF n <= 300 THEN 4
  ELSE 5

\* C4: the style of a finite value is the style of exactly the values of its
\* band, the bands ending at 50, 100, 200 and 300 inclusive; a value that is
\* no finite number gets the unknown style, which no finite value gets.
C4_StyleByBand ==
  probe.fn = "chooseStyle" =>
    IF IsFinite(probe.arg)
    THEN \A n \in (-1)..MaxValue :
           (chooseStyle(Num(n)) = probe.out) <=> (Band(n) = Band(probe.arg.n))
    ELSE /\ probe.out = <<"#555555", 5000>>
         /\ \A n \in (-1)..MaxValue : chooseStyle(Num(n)) # probe.out

\* 300 is in the band that 201 is in, and 301 is not.
C4_Boundary ==
  /\ probe.fn = "chooseStyle"
  /\ probe.arg = Num(300)
  /\ probe.out = chooseStyle(Num(201))
  /\ probe.out # chooseStyle(Num(301))

\* C5: norm is idempotent: norm of a normalized key is that key. (The code
\* removes punctuation after it has collapsed the whitespace, so a mark
\* between two spaces leaves two spaces, which a second pass collapses.)
C5_NormIdempotent ==
  probe.fn = "norm" => probe.again = probe.out

\* C6: the reverse table maps the target of every key of the forward table
\* back to that key, and no two keys of the forward table share a target.
C6_AliasRoundTrip ==
  /\ ( probe.fn = "alias" /\ probe.arg \in DOMAIN NAME_ALIASES
       => probe.back = Str(probe.arg) )
  /\ \A a, b \in DOMAIN NAME_ALIASES :
       NAME_ALIASES[a] = NAME_ALIASES[b] => a = b

\* kerala goes to 35 and 35 back to kerala.
C6_Kerala ==
  /\ probe.fn = "alias"
  /\ probe.arg = <<"k","e","r","a","l","a">>
  /\ probe.out = Str(<<"3","5">>)
  /\ probe.back = Str(<<"k","e","r","a","l","a">>)

\* Anchors left by an earlier collection.
StaleAnchors == MapSet(EmptyMap, norm(Str(Atlantis)), Vec(1, 1))

\* The canonical keys of the named features of a collection.
FeatureKeys(geo) ==
  {TopoKey(getName(geo.features[i].properties)) :
     i \in {j \in 1..Len(geo.features) : getName(geo.features[j].properties) # <<>>}}

\* C7: on a running page the anchors hold exactly the canonical keys of the
\* named features of the collection; a rebuild for the same width and height
\* gives these same anchors whatever the map held before (nothing, these
\* anchors, or entries of another collection), and so does onResize.
C7_AnchorsRebuilt ==
  pc = "running" /\ geojson.k = "FeatureCollection" =>
    /\ DOMAIN anchors = FeatureKeys(geojson)
    /\ \A prior \in {EmptyMap, anchors, StaleAnchors} :
         rebuildAnchorsFromMap(prior, geojson, currentProjection, win[1], win[2])
           = anchors
    /\ rebuildMap(geojson, win[1], win[2], currentProjection, anchors,
                  fernMeshes).anchors = anchors

\* Four features, one without a name and two with the same canonical key:
\* two anchors, the later feature's position under the shared key.
C7_FourFeatures ==
  /\ pc = "running"
  /\ geojson.k = "FeatureCollection"
  /\ Len(geojson.features) = 4
  /\ win = <<1200, 600>>
  /\ DOMAIN anchors = {<<"3","5">>, <<"3","1">>}
  /\ anchors[<<"3","5">>] = ScreenPos(Centroid(currentProjection, FCode35), 1200, 600)

\* C8: boundaries for Kerala and Tamil Nadu and a table with rows for Kerala
\* only give two ferns, one per boundary region, each at its anchor, Tamil
\* Nadu's in the unknown style.
C8_FernPerRegion ==
  ( /\ pc = "running"
    /\ geojson.k = "FeatureCollection"
    /\ geojson.features = <<FKerala, FTamilNadu>>
    /\ rows = <<K1980, K1985, K1990>> )
  => /\ Len(fernMeshes) = 2
     /\ \E i \in 1..Len(fernMeshes) :
          /\ fernMeshes[i].key = CanonicalKey(TamilNadu)
          /\ fernMeshes[i].position = anchors[CanonicalKey(TamilNadu)]
          /\ fernMeshes[i].style = chooseStyle(NaN)

\* C9: when the boundary load has failed the tabular load has been issued
\* all the same.
C9_CsvIssuedAfterFailure ==
  pc = "stopped" => csvIssued

\* C10: the render loop runs while a load is pending and after a load has
\* failed.
C10_FramesWhilePending ==
  pc \in {"awaitBoundaries", "awaitCSV", "stopped"} => rafPending

\* C11: when the boundaries have loaded and the CSV load has failed, the
\* error is logged and the page runs all the same: the resize handler is
\* registered, the projection and the anchors of the collection are built,
\* the render loop has started, there are no ferns, and the month never
\* moves because yearList is empty.
C11_CsvFailureNotFatal ==
  "csv" \in console =>
    /\ pc = "running"
    /\ resizeListener
    /\ camera
    /\ rafPending
    /\ frames
    /\ geojson.k = "FeatureCollection"
    /\ currentProjection = chooseProjection(geojson, win[1], win[2])
    /\ DOMAIN anchors = FeatureKeys(geojson)
    /\ dataBySubdivision = EmptyMap
    /\ yearList = <<>>
    /\ fernMeshes = <<>>
    /\ monthIndex = 0
    /\ ticks = 0

\* Two tick intervals after a failed CSV load: the two regions' anchors are
\* there and January is still the month.
C11_MapWithoutData ==
  /\ "csv" \in console
  /\ pc = "running"
  /\ clock = 2 * tickMs
  /\ DOMAIN anchors = {<<"3","5">>, <<"3","1">>}
  /\ monthIndex = 0

\* The valid years of the rows that name a region.
ValidYears(rws) ==
  {YearOf(rws[i]).n :
     i \in {j \in 1..Len(rws) : HasSubdivision(rws[j]) /\ IsFinite(YearOf(rws[j]))}}

\* C12: when the startup has ingested rows with at least one valid year, the
\* year cursor is on the most recent year, yearIndex = length(yearList) - 1
\* and yearList[yearIndex] the greatest valid year of the rows, and the ferns
\* show that year, with or without a year selector in the page.
C12_CursorOnLatestYear ==
  [][ (pc = "awaitCSV" /\ pc' = "running" /\ yearList' # <<>>) =>
        /\ yearIndex' = Len(yearList') - 1
        /\ yearList'[yearIndex' + 1] = Max(ValidYears(rows'))
        /\ \A i \in 1..Len(fernMeshes') :
             fernMeshes'[i].style =
               chooseStyle(valueFor(dataBySubdivision', subdivisionList'[i],
                                    Num(Max(ValidYears(rows'))),
                                    MONTHS[monthIndex' + 1])) ]_vars

\* The text of the month under the cursor in the row that answers for fern i.
CursorText(i) ==
  Get(ResolveRow(dataBySubdivision[subdivisionList[i]], YearAt(yearList, yearIndex)),
      MONTHS[monthIndex + 1])

\* A month field that is absent, empty, or no number.
NoMonthValue(text) ==
  \/ text.k = "undefined"
  \/ text.s = <<>>
  \/ Number(text) = NaN

\* C13: a fern whose month field under the cursor is missing or not numeric
\* (no such column, an empty text, a text that is no number) shows the
\* unknown style, and the value resolved for it is no finite number.
C13_MissingMonthUnknown ==
  pc = "running" =>
    \A i \in 1..Len(fernMeshes) :
      NoMonthValue(CursorText(i)) =>
        /\ fernMeshes[i].style = chooseStyle(NaN)
        /\ ~IsFinite(valueFor(dataBySubdivision, subdivisionList[i],
                              YearAt(yearList, yearIndex), MONTHS[monthIndex + 1]))

\* The positions in the input of the rows of a region and a year.
YearRows(sub, y) == {i \in RegionRows(sub) : YearOf(rows[i]) = y}

\* C14: when the rows hold two records of one region and one year, valueFor
\* for that region and year reads the month from the record that came last
\* in the input.
C14_LastDuplicateWins ==
  ( /\ probe.fn = "valueFor"
    /\ \A i \in RegionRows(probe.subdivision) : IsFinite(YearOf(rows[i]))
    /\ Cardinality(YearRows(probe.subdivision, probe.y)) >= 2 )
  => probe.out = Number(Get(rows[Max(YearRows(probe.subdivision, probe.y))], probe.m))

\* C15: the ferns are built before the first rebuild of the map, at the
\* origin since there is no anchor yet; on a running page, after the rebuild
\* of the startup and after every resize, each fern whose canonical key has
\* an anchor is at that anchor, and a fern whose key has none is where it was
\* built.
C15_AnchorsBackfilled ==
  pc = "running" =>
    /\ \A i \in 1..Len(fernMeshes) :
         /\ fernMeshes[i].key = CanonicalKey(subdivisionList[i])
         /\ fernMeshes[i].position =
              IF fernMeshes[i].key \in DOMAIN anchors
              THEN anchors[fernMeshes[i].key]
              ELSE Origin
    /\ \A i \in 1..Len(subdivisionList) :
         buildAllFerns(dataBySubdivision, subdivisionList, yearList, yearIndex,
                       monthIndex, EmptyMap)[i].position = Origin

\* Kerala's fern on its anchor, away from the origin, and the fern of a
\* region the map does not have at the origin.
C15_KeralaPlaced ==
  /\ pc = "running"
  /\ \E i \in 1..Len(fernMeshes) :
       /\ fernMeshes[i].subdivision = Kerala
       /\ fernMeshes[i].position = anchors[<<"3","5">>]
       /\ fernMeshes[i].position # Origin
  /\ \E i \in 1..Len(fernMeshes) :
       /\ fernMeshes[i].subdivision = Atlantis
       /\ fernMeshes[i].key \notin DOMAIN anchors
       /\ fernMeshes[i].position = Origin

\* The ferns are those of subdivisionList, in its order, each in the style of
\* its value at the cursor, and the month index is one of the twelve.
FernsShowCursor ==
  /\ Len(fernMeshes) = Len(subdivisionList)
  /\ monthIndex \in 0..(Len(MONTHS) - 1)
  /\ \A i \in 1..Len(fernMeshes) :
       /\ fernMeshes[i].subdivision = subdivisionList[i]
       /\ fernMeshes[i].style =
            chooseStyle(valueFor(dataBySubdivision, subdivisionList[i],
                                 YearAt(yearList, yearIndex), MONTHS[monthIndex + 1]))

\* C16 as stated: after the ingestion the ferns show the cursor and
\* yearIndex is a valid index of yearList.
C16_CursorShownIndexValid ==
  pc = "running" /\ "csv" \notin console =>
    /\ FernsShowCursor
    /\ yearIndex \in 0..(Len(yearList) - 1)

\* C16: after the ingestion, through every interleaving of ticks, month
\* clicks, year selections and resizes, the ferns show the value at the
\* cursor; yearIndex is a valid index of yearList when yearList holds a year
\* (it is 0 when the table has no valid year); a year selection leaves
\* monthIndex unchanged and a month click leaves yearIndex unchanged.
C16_CursorShown ==
  /\ [](pc = "running" /\ "csv" \notin console =>
          /\ FernsShowCursor
          /\ IF yearList = <<>> THEN yearIndex = 0
             ELSE yearIndex \in 0..(Len(yearList) - 1))
  /\ [][YearChange => monthIndex' = monthIndex]_vars
  /\ [][MonthClick => yearIndex' = yearIndex]_vars

\* The user has chosen the second year and March, and a tick has moved the
\* month to April: Kerala's fern shows April 1985.
C16_AprilShown ==
  /\ pc = "running"
  /\ rows = <<K1980, K1985, K1990>>
  /\ yearIndex = 1
  /\ m0 = 2
  /\ ticks = 1
  /\ monthIndex = 3
  /\ fernMeshes[1].style = chooseStyle(Num(201))

====
